---- MODULE Spec2Model ----
(***************************************************************************)
(* Global Participation Map (src/app.py).                                  *)
(*                                                                         *)
(* The script loads one sheet per competition (load_competition), splits   *)
(* and canonicalises the country field (df_split), aggregates per          *)
(* (competition, country) and per country (per_competition, all_combined,  *)
(* map_data), and serves a Dash callback, update_map, which filters        *)
(* map_data by the two dropdown selections.                                *)
(*                                                                         *)
(* Cell values are character sequences (<<"U","S","A">> is the text USA);  *)
(* a missing cell (pandas NaN / None) is the value NaN below, which is no  *)
(* text.  Data frames are sequences of rows where the code depends on row  *)
(* order (loading, exploding) and sets of rows keyed by                    *)
(* (Competition, COUNTRY) for the aggregate table, whose row order no      *)
(* operation of the callback depends on.                                   *)
(***************************************************************************)
EXTENDS FiniteSets, Integers, Sequences, TLC

VARIABLES
    stage,            \* position of the module-level script / the server
    sheet_name,       \* the sheet being read by load_competition
    sheet,            \* its raw rows, as read_excel returns them
    loaded,           \* the frame load_competition returns (index kept)
    pieces,           \* the pieces the raw country field was typed from
    all_data,         \* concatenated records (ignore_index)
    df_split,         \* normalized records (one per country token)
    per_competition,  \* aggregate per (Competition, COUNTRY)
    all_combined,     \* aggregate per COUNTRY, "All Competitions"
    map_data,         \* the table the callback reads
    session,          \* one browser session: the two dropdowns
    ret,              \* the last update_map call of the session
    pc,               \* per concurrent request: position in update_map
    args,             \* per request: (selected_comp, selected_metric)
    df_subset,        \* per request: the local frame df_subset
    result            \* per request: what the call returned

vars ==
    <<stage, sheet_name, sheet, loaded, pieces, all_data, df_split,
      per_competition, all_combined, map_data, session, ret,
      pc, args, df_subset, result>>

---------------------------------------------------------------------------
(* Constants of the script *)

\* Texts the script never takes apart are kept in one piece.
competition_order ==
    << <<"IROS 2024">>, <<"CDC 2024">>, <<"ICRA 2025">>, <<"CDC-TF 2025">> >>

Competitions ==
    {competition_order[i] : i \in DOMAIN competition_order}

AllCompetitions ==
    <<"All Competitions">>

\* The missing cell of a text column (NaN): not a character sequence.
NaN ==
    <<"NaN">>

\* The missing value of a count column (NaN after pd.concat); counts are >= 0.
NaNCount ==
    -1

UnitedStates ==
    <<"U","n","i","t","e","d"," ","S","t","a","t","e","s">>

UnitedArabEmirates ==
    <<"U","n","i","t","e","d"," ","A","r","a","b"," ","E","m","i","r","a","t","e","s">>

IvoryCoast ==
    <<"I","v","o","r","y"," ","C","o","a","s","t">>

SouthKorea ==
    <<"S","o","u","t","h"," ","K","o","r","e","a">>

Turkey ==
    <<"T","u","r","k","e","y">>

UnitedKingdom ==
    <<"U","n","i","t","e","d"," ","K","i","n","g","d","o","m">>

\* country_alias_map as a set of <<key, value>> pairs (src/app.py:23-37)
country_alias_map ==
    { <<<<"U","S","A">>,
        UnitedStates>>,
      <<<<"U",".","S",".">>,
        UnitedStates>>,
      <<<<"U","n","i","t","e","d"," ","S","t","a","t","e","s"," ","o","f"," ","A","m","e","r","i","c","a"," ","(","U","S","A",")">>,
        UnitedStates>>,
      <<<<"U","n","i","t","e","d"," ","S","t","a","t","e","s"," ","(","U","S",")">>,
        UnitedStates>>,
      <<<<"U","A","E">>,
        UnitedArabEmirates>>,
      <<<<"U","n","i","t","e","d"," ","A","r","a","b"," ","E","m","i","r","a","t","e","s"," ","(","U","A","E",")">>,
        UnitedArabEmirates>>,
      <<<<"C","ô","t","e"," ","d","'","I","v","o","i","r","e">>,
        IvoryCoast>>,
      <<<<"R","e","p","u","b","l","i","c"," ","o","f"," ","K","o","r","e","a">>,
        SouthKorea>>,
      <<<<"R","e","p","u","b","l","i","c"," ","o","f"," ","T","ü","r","k","i","y","e">>,
        Turkey>>,
      <<<<"T","u","r","k","i","y","e">>,
        Turkey>>,
      <<<<"T","ü","r","k","i","y","e">>,
        Turkey>>,
      <<<<"U","K">>,
        UnitedKingdom>>,
      <<<<"U",".","K",".">>,
        UnitedKingdom>> }

AliasKeys ==
    {kv[1] : kv \in country_alias_map}

\* metric_labels.keys(), in insertion order
all_metrics ==
    <<"Teams", "Participants", "Organizations", "Participation">>

metric_labels ==
    [m \in {all_metrics[i] : i \in DOMAIN all_metrics} |->
        CASE m = "Teams" -> "Number of Teams"
          [] m = "Participants" -> "Number of Participants"
          [] m = "Organizations" -> "Number of Organizations"
          [] m = "Participation" -> "Number of Competitions"]

---------------------------------------------------------------------------
(* Generic helpers *)

Range(s) ==
    {s[i] : i \in DOMAIN s}

InSeq(x, s) ==
    \E i \in DOMAIN s : s[i] = x

RECURSIVE Flatten(_)
Flatten(ss) ==
    IF ss = <<>> THEN <<>> ELSE Head(ss) \o Flatten(Tail(ss))

RECURSIVE SumOver(_, _)
SumOver(S, col) ==
    IF S = {} THEN 0
    ELSE LET r == CHOOSE x \in S : TRUE
         IN  r[col] + SumOver(S \ {r}, col)

MaxOf(S) ==
    CHOOSE v \in S : \A w \in S : w <= v

---------------------------------------------------------------------------
(* Record Loader: load_competition, all_data *)

IsNa(v) ==
    v = NaN

\* Series.ffill(): the last value present at or above row i, else NaN.
RECURSIVE FFillCell(_, _, _)
FFillCell(rows, col, i) ==
    IF i = 0 THEN NaN
    ELSE IF ~IsNa(rows[i][col]) THEN rows[i][col]
    ELSE FFillCell(rows, col, i - 1)

\* df[[...]] = df[[...]].ffill(): each of the four columns on its own.
FFill(rows) ==
    [i \in DOMAIN rows |->
        [index        |-> i,
         SR_NO        |-> FFillCell(rows, "SR_NO", i),
         TEAM_NAME    |-> FFillCell(rows, "TEAM_NAME", i),
         TEAM_MEMBER  |-> rows[i].TEAM_MEMBER,
         ORGANIZATION |-> FFillCell(rows, "ORGANIZATION", i),
         COUNTRY      |-> FFillCell(rows, "COUNTRY", i)]]

DropNaMember(rows) ==
    SelectSeq(rows, LAMBDA r : ~IsNa(r.TEAM_MEMBER))

load_competition(rows, name) ==
    LET kept == DropNaMember(FFill(rows))
    IN  [i \in DOMAIN kept |->
            [index        |-> kept[i].index,
             SR_NO        |-> kept[i].SR_NO,
             TEAM_NAME    |-> kept[i].TEAM_NAME,
             TEAM_MEMBER  |-> kept[i].TEAM_MEMBER,
             ORGANIZATION |-> kept[i].ORGANIZATION,
             COUNTRY      |-> kept[i].COUNTRY,
             Competition  |-> name]]

\* pd.concat(..., ignore_index=True): the frames' own indexes are dropped.
IgnoreIndex(df) ==
    [i \in DOMAIN df |->
        [SR_NO        |-> df[i].SR_NO,
         TEAM_NAME    |-> df[i].TEAM_NAME,
         TEAM_MEMBER  |-> df[i].TEAM_MEMBER,
         ORGANIZATION |-> df[i].ORGANIZATION,
         COUNTRY      |-> df[i].COUNTRY,
         Competition  |-> df[i].Competition]]

---------------------------------------------------------------------------
(* Country Normalizer: df_split *)

\* \s of the regular expression and the characters str.strip() removes
Whitespace ==
    {" ", "\t", "\n"}

\* First position at or after i that holds no whitespace (Len(s)+1 if none).
SkipWs(s, i) ==
    LET stops == {j \in i..Len(s) : s[j] \notin Whitespace}
    IN  IF stops = {} THEN (IF i > Len(s) THEN i ELSE Len(s) + 1)
        ELSE CHOOSE j \in stops : \A k \in stops : j <= k

\* \s*&\s* and \s*/\s* tried at position i: the position after the match,
\* or 0 when the alternative does not match there.
MatchSymbol(s, i, ch) ==
    LET j == SkipWs(s, i)
    IN  IF j <= Len(s) /\ s[j] = ch THEN SkipWs(s, j + 1) ELSE 0

\* \s+and\s+ tried at position i.
MatchAnd(s, i) ==
    LET j == SkipWs(s, i)
    IN  IF /\ j > i
           /\ j + 3 <= Len(s)
           /\ s[j] = "a" /\ s[j + 1] = "n" /\ s[j + 2] = "d"
           /\ s[j + 3] \in Whitespace
        THEN SkipWs(s, j + 3)
        ELSE 0

\* The alternation r'\s*&\s*|\s*/\s*|\s+and\s+' at position i, alternatives
\* in order.
MatchDelimiter(s, i) ==
    LET amp   == MatchSymbol(s, i, "&")
        slash == MatchSymbol(s, i, "/")
    IN  IF amp # 0 THEN amp
        ELSE IF slash # 0 THEN slash
        ELSE MatchAnd(s, i)

\* The first position at or after i where the pattern matches (0 if none).
\* Every alternative begins with whitespace or with its symbol.
NextMatch(s, i) ==
    LET starts == {j \in i..Len(s) :
                      /\ s[j] \in Whitespace \cup {"&", "/"}
                      /\ MatchDelimiter(s, j) # 0}
    IN  IF starts = {} THEN 0
        ELSE CHOOSE j \in starts : \A k \in starts : j <= k

\* re.sub(pattern, ',', s): leftmost non-overlapping matches, left to right;
\* the text between two matches is copied.
RECURSIVE ReSub(_, _)
ReSub(s, i) ==
    LET m == NextMatch(s, i)
    IN  IF m = 0 THEN SubSeq(s, i, Len(s))
        ELSE SubSeq(s, i, m - 1) \o <<",">> \o ReSub(s, MatchDelimiter(s, m))

str_replace(s) ==
    IF IsNa(s) THEN NaN ELSE ReSub(s, 1)

\* The first comma at or after i (Len(s) + 1 if none).
NextComma(s, i) ==
    LET commas == {j \in i..Len(s) : s[j] = ","}
    IN  IF commas = {} THEN Len(s) + 1
        ELSE CHOOSE j \in commas : \A k \in commas : j <= k

\* Mutant: empty tokens are dropped (as s.split() without a separator does).
RECURSIVE SplitFrom_NoEmpty(_, _)
SplitFrom_NoEmpty(s, i) ==
    LET c   == NextComma(s, i)
        tok == SubSeq(s, i, c - 1)
        one == IF tok = <<>> THEN <<>> ELSE <<tok>>
    IN  IF c > Len(s) THEN one ELSE one \o SplitFrom_NoEmpty(s, c + 1)

\* s.split(','): the tokens between commas, empty tokens kept.
RECURSIVE SplitFrom(_, _)
SplitFrom(s, i) ==
    LET c == NextComma(s, i)
    IN  IF c > Len(s) THEN <<SubSeq(s, i, Len(s))>>
        ELSE <<SubSeq(s, i, c - 1)>> \o SplitFrom(s, c + 1)

\* .str.split(','): a list of tokens, or still NaN.
str_split(s) ==
    IF IsNa(s) THEN [isna |-> TRUE, items |-> <<>>]
    ELSE [isna |-> FALSE, items |-> SplitFrom(s, 1)]

WithCountry(r, c) ==
    [r EXCEPT !.COUNTRY = c]

\* DataFrame.explode('COUNTRY') of one row: one row per list element, every
\* other column repeated; a NaN cell gives one row.
ExplodeRow(r, cell) ==
    IF cell.isna THEN <<WithCountry(r, NaN)>>
    ELSE [k \in DOMAIN cell.items |-> WithCountry(r, cell.items[k])]

explode(df) ==
    Flatten([i \in DOMAIN df |->
                ExplodeRow(df[i], str_split(str_replace(df[i].COUNTRY)))])

RECURSIVE LStrip(_)
LStrip(s) ==
    IF s # <<>> /\ Head(s) \in Whitespace THEN LStrip(Tail(s)) ELSE s

RECURSIVE RStrip(_)
RStrip(s) ==
    IF s # <<>> /\ s[Len(s)] \in Whitespace
    THEN RStrip(SubSeq(s, 1, Len(s) - 1))
    ELSE s

str_strip(s) ==
    IF IsNa(s) THEN NaN ELSE LStrip(RStrip(s))

\* Series.replace(country_alias_map): whole-value, exact match.
replace_alias(s) ==
    IF s \in AliasKeys
    THEN (CHOOSE kv \in country_alias_map : kv[1] = s)[2]
    ELSE s

\* Lines 39-42: copy, substitute the separators, split, explode.
SplitAndExplode(df) ==
    explode(df)

\* Mutant: the alias table is applied before the tokens are stripped.
Canonical_AliasBeforeStrip(c) ==
    str_strip(replace_alias(c))

\* Lines 43-44: strip, then the alias table.
Canonical(c) ==
    replace_alias(str_strip(c))

\* Lines 43-44 on the whole frame.
StripAndReplace(ex) ==
    [i \in DOMAIN ex |-> WithCountry(ex[i], Canonical(ex[i].COUNTRY))]

---------------------------------------------------------------------------
(* Aggregator: per_competition, all_combined, map_data *)

Column(group, col) ==
    [i \in DOMAIN group |-> group[i][col]]

\* 'nunique': the number of distinct values present (NaN is not counted).
NUnique(values) ==
    Cardinality({v \in Range(values) : ~IsNa(v)})

\* 'count': the number of cells present.
Count(values) ==
    Len(SelectSeq(values, LAMBDA v : ~IsNa(v)))

\* groupby(['Competition', 'COUNTRY']): keys with a missing part are dropped.
CompetitionCountryKeys(df) ==
    {<<r.Competition, r.COUNTRY>> : r \in {x \in Range(df) : ~IsNa(x.COUNTRY)}}

CountryKeys(df) ==
    {r.COUNTRY : r \in {x \in Range(df) : ~IsNa(x.COUNTRY)}}

GroupCompetitionCountry(df, comp, country) ==
    SelectSeq(df, LAMBDA r : r.Competition = comp /\ r.COUNTRY = country)

GroupCountry(df, country) ==
    SelectSeq(df, LAMBDA r : r.COUNTRY = country)

\* Mutant: 'count' where the code says 'nunique'.
TeamsAgg_Count(group) ==
    Count(Column(group, "TEAM_NAME"))

TeamsAgg(group) ==
    NUnique(Column(group, "TEAM_NAME"))

ParticipantsAgg(group) ==
    Count(Column(group, "TEAM_MEMBER"))

OrganizationsAgg(group) ==
    NUnique(Column(group, "ORGANIZATION"))

\* Mutant: 'count' where the code says 'nunique'.
ParticipationAgg_Count(group) ==
    Count(Column(group, "Competition"))

ParticipationAgg(group) ==
    NUnique(Column(group, "Competition"))

PerCompetition(df) ==
    {LET g == GroupCompetitionCountry(df, k[1], k[2])
     IN  [Competition   |-> k[1],
          COUNTRY       |-> k[2],
          Teams         |-> TeamsAgg(g),
          Participants  |-> ParticipantsAgg(g),
          Organizations |-> OrganizationsAgg(g)]
     : k \in CompetitionCountryKeys(df)}

\* The per-country pass over all of df_split, labelled "All Competitions".
AllCombinedRow(df, country) ==
    LET g == GroupCountry(df, country)
    IN  [COUNTRY       |-> country,
         Teams         |-> TeamsAgg(g),
         Participants  |-> ParticipantsAgg(g),
         Organizations |-> OrganizationsAgg(g),
         Participation |-> ParticipationAgg(g),
         Competition   |-> AllCompetitions]

AllCombined(df) ==
    {AllCombinedRow(df, c) : c \in CountryKeys(df)}

\* pd.concat([per_competition, all_combined]): a column one frame lacks is NaN.
Concat(per, allc) ==
    {[Competition   |-> r.Competition,
      COUNTRY       |-> r.COUNTRY,
      Teams         |-> r.Teams,
      Participants  |-> r.Participants,
      Organizations |-> r.Organizations,
      Participation |-> NaNCount] : r \in per}
    \cup allc

MapData(df) ==
    Concat(PerCompetition(df), AllCombined(df))

---------------------------------------------------------------------------
(* Presentation Layer: update_map *)

\* map_data[map_data['Competition'] == selected_comp].copy()
FilterCopy(table, selected_comp) ==
    {r \in table : r.Competition = selected_comp}

FillCell(v) ==
    IF v = NaNCount THEN 0 ELSE v

\* .fillna(0).astype(int) on each numeric column of the copy
FillNa(rows) ==
    {[r EXCEPT !.Teams = FillCell(@), !.Participants = FillCell(@),
               !.Organizations = FillCell(@), !.Participation = FillCell(@)]
     : r \in rows}

\* Mutant: the filter hands out a view, and the fill writes through it.
SharedAfterFill_InPlace(table, selected_comp) ==
    (table \ FilterCopy(table, selected_comp))
    \cup FillNa(FilterCopy(table, selected_comp))

\* What the fill leaves in the shared table: it writes only to the copy.
SharedAfterFill(table, selected_comp) ==
    table

\* Mutant: Participation is never taken out of the valid metrics.
ValidMetrics_KeepsParticipation(selected_comp) ==
    all_metrics

ValidMetrics(selected_comp) ==
    IF selected_comp # AllCompetitions
    THEN SelectSeq(all_metrics, LAMBDA m : m # "Participation")
    ELSE all_metrics

\* Mutant: the fallback index is off by one (the second valid metric).
ResolveMetric_SecondValid(selected_comp, selected_metric) ==
    IF ~InSeq(selected_metric, ValidMetrics(selected_comp))
    THEN ValidMetrics(selected_comp)[2]
    ELSE selected_metric

\* if selected_metric not in valid_metrics: selected_metric = valid_metrics[0]
ResolveMetric(selected_comp, selected_metric) ==
    IF ~InSeq(selected_metric, ValidMetrics(selected_comp))
    THEN ValidMetrics(selected_comp)[1]
    ELSE selected_metric

MetricOptions(selected_comp) ==
    LET valid == ValidMetrics(selected_comp)
    IN  [i \in DOMAIN valid |->
            [label |-> metric_labels[valid[i]], value |-> valid[i]]]

HoverCols(selected_comp) ==
    IF selected_comp = AllCompetitions
    THEN <<"Teams", "Participants", "Organizations", "Participation">>
    ELSE <<"Teams", "Participants", "Organizations">>

\* One country's hover text: its name and the hover columns' values.
HoverText(rows, selected_comp) ==
    {[COUNTRY |-> r.COUNTRY,
      values  |-> [i \in DOMAIN HoverCols(selected_comp) |->
                      r[HoverCols(selected_comp)[i]]]] : r \in rows}

\* Series.max(): NaN for an empty column.
MaxVal(rows, metric) ==
    IF rows = {} THEN NaNCount ELSE MaxOf({r[metric] : r \in rows})

\* Mutant: integer division in place of round().
Round_Floor(n, d) ==
    n \div d

\* Python's round(n / d) for integers n >= 0, d > 0: nearest, ties to even.
Round(n, d) ==
    LET q == n \div d
        r == n % d
    IN  IF 2 * r < d THEN q
        ELSE IF 2 * r > d THEN q + 1
        ELSE IF q % 2 = 0 THEN q ELSE q + 1

\* dtick = 1 if max_val <= 20 else max(1, round(max_val / 6)), max_val present
DTick(max_val) ==
    IF max_val <= 20 THEN 1
    ELSE IF Round(max_val, 6) > 1 THEN Round(max_val, 6) ELSE 1

\* Lines 147-217 on the filled copy: totals, hover text, tick, figure.
Figure(rows, selected_comp, metric) ==
    [color               |-> metric,
     title_comp          |-> selected_comp,
     label               |-> metric_labels[metric],
     total_participants  |-> SumOver(rows, "Participants"),
     total_teams         |-> SumOver(rows, "Teams"),
     total_organizations |-> SumOver(rows, "Organizations"),
     total_countries     |-> Cardinality({r.COUNTRY : r \in rows}),
     hover_text          |-> HoverText(rows, selected_comp),
     dtick               |-> DTick(MaxVal(rows, metric))]

\* A call that raised: nothing is returned to the page.
Raised ==
    [status |-> "error", options |-> <<>>, metric |-> "", fig |-> <<>>]

\* The return of update_map from its filled copy.  For an empty copy max_val
\* is NaN, NaN <= 20 is false and round(NaN) raises ValueError (line 172).
Finish(rows, selected_comp, selected_metric) ==
    IF MaxVal(rows, ResolveMetric(selected_comp, selected_metric)) = NaNCount
    THEN Raised
    ELSE [status  |-> "ok",
          options |-> MetricOptions(selected_comp),
          metric  |-> ResolveMetric(selected_comp, selected_metric),
          fig     |-> Figure(rows, selected_comp,
                             ResolveMetric(selected_comp, selected_metric))]

\* update_map(selected_comp, selected_metric) run against a table.
update_map(selected_comp, selected_metric, table) ==
    Finish(FillNa(FilterCopy(table, selected_comp)),
           selected_comp, selected_metric)

---------------------------------------------------------------------------
(* Inputs *)

\* Largest team of the served workbooks (members of one team)
MaxMembers ==
    45

T1 == <<"T1">>
T2 == <<"T2">>
O1 == <<"O1">>
O2 == <<"O2">>
CountryA == <<"G","e","r","m","a","n","y">>
CountryB == <<"J","a","p","a","n">>
Member == <<"member">>

\* n normalized records of one team: one per team member.
TeamRecords(team, org, country, comp, n) ==
    [i \in 1..n |->
        [SR_NO        |-> <<"1">>,
         TEAM_NAME    |-> team,
         TEAM_MEMBER  |-> Member,
         ORGANIZATION |-> org,
         COUNTRY      |-> country,
         Competition  |-> comp]]

\* A competition's small team: none, one member in CountryA, one in CountryB.
SmallTeam(comp, choice) ==
    CASE choice = 0 -> <<>>
      [] choice = 1 -> TeamRecords(T1, O1, CountryA, comp, 1)
      [] choice = 2 -> TeamRecords(T2, O2, CountryB, comp, 1)

\* A normalized record set: per competition a small team or none, and a team
\* of n members (none for n = 0) in the first competition.
ServedRecords(base, n) ==
    Flatten([i \in DOMAIN competition_order |->
                SmallTeam(competition_order[i], base[competition_order[i]])])
    \o TeamRecords(T2, O1, CountryA, competition_order[1], n)

---------------------------------------------------------------------------
(* The page: layout and callback wiring (lines 85-123) *)

Requests ==
    {"r1", "r2"}

CompetitionDropdown ==
    {AllCompetitions} \cup Competitions

NoCall ==
    [called |-> FALSE, selected_comp |-> AllCompetitions,
     selected_metric |-> "Teams", options_in |-> <<>>, by_output |-> FALSE,
     df_subset |-> {}, out |-> Raised]

NoResult ==
    [called |-> FALSE, overlapped |-> FALSE, out |-> Raised]

\* The layout: 'All Competitions', 'Teams', no metric options yet; Dash fires
\* the callback once when the page loads.
InitialSession ==
    [comp |-> AllCompetitions, metric |-> "Teams", options |-> <<>>,
     pending |-> TRUE, by_output |-> FALSE]

IdleRequests ==
    /\ pc = [q \in Requests |-> "idle"]
    /\ args = [q \in Requests |-> <<AllCompetitions, "Teams">>]
    /\ df_subset = [q \in Requests |-> {}]
    /\ result = [q \in Requests |-> NoResult]

NoSheet ==
    /\ sheet_name = competition_order[1]
    /\ sheet = <<>>
    /\ loaded = <<>>
    /\ pieces = <<>>
    /\ all_data = <<>>

requestVars == <<pc, args, df_subset, result>>
loadVars == <<sheet_name, sheet, loaded, pieces, all_data>>
aggVars == <<df_split, per_competition, all_combined, map_data>>

\* The user picks another competition.
SelectCompetition(c) ==
    /\ stage = "serve"
    /\ ~session.pending
    /\ c # session.comp
    /\ session' = [session EXCEPT !.comp = c, !.pending = TRUE,
                                  !.by_output = FALSE]
    /\ ret' = NoCall
    /\ UNCHANGED <<stage, loadVars, aggVars, requestVars>>

\* The user picks another metric among the dropdown's options.
SelectMetric(m) ==
    /\ stage = "serve"
    /\ ~session.pending
    /\ \E i \in DOMAIN session.options : session.options[i].value = m
    /\ m # session.metric
    /\ session' = [session EXCEPT !.metric = m, !.pending = TRUE,
                                  !.by_output = FALSE]
    /\ ret' = NoCall
    /\ UNCHANGED <<stage, loadVars, aggVars, requestVars>>

\* What the page holds after a call: the outputs are written to the metric
\* dropdown; a raised call writes nothing.  A written value that differs
\* from the input value is a changed input of the same callback.
SessionAfter(s, out) ==
    IF out.status = "ok"
    THEN [comp |-> s.comp, metric |-> out.metric, options |-> out.options,
          pending |-> out.metric # s.metric,
          by_output |-> out.metric # s.metric]
    ELSE [s EXCEPT !.pending = FALSE, !.by_output = FALSE]

\* One run of the callback for the session, start to return.
UpdateMap ==
    /\ stage = "serve"
    /\ session.pending
    /\ LET out == update_map(session.comp, session.metric, map_data)
       IN  /\ ret' = [called |-> TRUE,
                      selected_comp |-> session.comp,
                      selected_metric |-> session.metric,
                      options_in |-> session.options,
                      by_output |-> session.by_output,
                      df_subset |-> FillNa(FilterCopy(map_data, session.comp)),
                      out |-> out]
           /\ session' = SessionAfter(session, out)
    /\ map_data' = SharedAfterFill(map_data, session.comp)
    /\ UNCHANGED <<stage, loadVars, df_split, per_competition, all_combined,
                   requestVars>>

\* The server after startup, one browser session.  A workbook without any
\* member row is left out: startup is not known to get past line 40 with it.
Init ==
    /\ stage = "serve"
    /\ NoSheet
    /\ \E base \in [Competitions -> {0, 1, 2}], n \in 0..MaxMembers :
          /\ df_split = ServedRecords(base, n)
          /\ df_split # <<>>
          /\ per_competition = PerCompetition(df_split)
          /\ all_combined = AllCombined(df_split)
          /\ map_data = Concat(per_competition, all_combined)
    /\ session = InitialSession
    /\ ret = NoCall
    /\ IdleRequests

Next ==
    \/ \E c \in CompetitionDropdown : SelectCompetition(c)
    \/ \E m \in Range(all_metrics) : SelectMetric(m)
    \/ UpdateMap

Spec ==
    Init /\ [][Next]_vars

---------------------------------------------------------------------------
(* Properties of the callback (specification Spec) *)

OptionValues(options) ==
    [i \in DOMAIN options |-> options[i].value]

Returned ==
    ret.called /\ ret.out.status = "ok"

\* C1: every call that returns gives all four metrics as options for
\* "All Competitions" and the three without Participation for any other
\* competition; the returned metric is the input metric when that is among
\* the returned options and Teams otherwise, so it is always one of the
\* returned options; a switch to a single competition with Participation
\* selected returns Teams and options without Participation.
C1_MetricResolution ==
    Returned =>
        LET values == OptionValues(ret.out.options)
        IN  /\ values = IF ret.selected_comp = AllCompetitions
                        THEN <<"Teams", "Participants", "Organizations",
                               "Participation">>
                        ELSE <<"Teams", "Participants", "Organizations">>
            /\ ret.out.metric = IF InSeq(ret.selected_metric, values)
                                THEN ret.selected_metric
                                ELSE "Teams"
            /\ InSeq(ret.out.metric, values)
            /\ (ret.selected_comp # AllCompetitions
                /\ ret.selected_metric = "Participation")
               => (ret.out.metric = "Teams"
                   /\ ~InSeq("Participation", values))

\* A call for a single competition arrived with Participation selected (the
\* competition was switched away from "All Competitions") and returned Teams.
C1_Witness ==
    /\ Returned
    /\ ret.selected_comp # AllCompetitions
    /\ ret.selected_metric = "Participation"
    /\ Len(ret.options_in) = 4
    /\ ret.out.metric = "Teams"
    /\ Len(ret.out.options) = 3

\* The largest value of the returned metric over the table's rows of the
\* selected competition, a missing count read as 0.
SelectedMax ==
    MaxOf({IF r[ret.out.metric] = NaNCount THEN 0 ELSE r[ret.out.metric]
             : r \in {x \in map_data : x.Competition = ret.selected_comp}})

\* C6: the legend's tick interval of a call that returns is 1 when the
\* selected metric's maximum is at most 20 and otherwise an integer nearest
\* to maximum / 6 and at least 1; 15 gives 1, 42 gives 7, 3 gives 1.
C6_TickInterval ==
    Returned =>
        LET dtick == ret.out.fig.dtick
            mx    == SelectedMax
        IN  /\ dtick \in Nat /\ dtick >= 1
            /\ mx <= 20 => dtick = 1
            /\ mx > 20 => /\ 6 * dtick - mx <= 3
                          /\ mx - 6 * dtick <= 3
            /\ mx = 15 => dtick = 1
            /\ mx = 42 => dtick = 7
            /\ mx = 3 => dtick = 1

C6_Witness ==
    /\ Returned
    /\ SelectedMax = 42
    /\ ret.out.fig.dtick = 7

\* C7: once startup has succeeded every recomputation returns its three
\* outputs without raising.
C7_NeverRaises ==
    ret.called => ret.out.status = "ok"

\* C10: a call fired by the callback's own written metric changes neither
\* the metric nor the options and leaves nothing pending (a fixed point after
\* one recomputation); the only value the callback writes over the selection
\* is Teams; calling again with the returned metric returns the same options
\* and metric; and under "All Competitions" Teams stays Teams.
C10_Idempotent ==
    Returned =>
        /\ ret.by_output =>
              /\ ret.selected_metric = "Teams"
              /\ ret.out.metric = ret.selected_metric
              /\ ret.out.options = ret.options_in
              /\ ~session.pending
        /\ LET again == update_map(ret.selected_comp, ret.out.metric, map_data)
           IN  /\ again.status = "ok"
               /\ again.metric = ret.out.metric
               /\ again.options = ret.out.options
        /\ (ret.selected_comp = AllCompetitions
            /\ ret.selected_metric = "Teams") => ret.out.metric = "Teams"

\* The recomputation fired by a reset has run and changed nothing.
C10_Witness ==
    /\ Returned
    /\ ret.by_output
    /\ ret.out.metric = "Teams"
    /\ session.metric = "Teams"
    /\ ~session.pending

---------------------------------------------------------------------------
(* Several users: requests running update_map side by side *)

MetricDropdown ==
    Range(all_metrics)

\* A request arrives with the two selections of some user's page.
Call(q, c, m) ==
    /\ stage = "serve"
    /\ pc[q] = "idle"
    /\ args' = [args EXCEPT ![q] = <<c, m>>]
    /\ result' = [result EXCEPT ![q] = NoResult]
    /\ pc' = [pc EXCEPT ![q] = "filter"]
    /\ UNCHANGED <<stage, loadVars, aggVars, session, ret, df_subset>>

\* Line 125: the request's own copy of the selected rows.
Filter(q) ==
    /\ pc[q] = "filter"
    /\ df_subset' = [df_subset EXCEPT ![q] = FilterCopy(map_data, args[q][1])]
    /\ pc' = [pc EXCEPT ![q] = "fill"]
    /\ UNCHANGED <<stage, loadVars, aggVars, session, ret, args, result>>

\* Lines 128-131: missing counts of the copy become 0.
Fill(q) ==
    /\ pc[q] = "fill"
    /\ df_subset' = [df_subset EXCEPT ![q] = FillNa(df_subset[q])]
    /\ map_data' = SharedAfterFill(map_data, args[q][1])
    /\ pc' = [pc EXCEPT ![q] = "finish"]
    /\ UNCHANGED <<stage, loadVars, df_split, per_competition, all_combined,
                   session, ret, args, result>>

\* Lines 133-219: from the copy to the return (or the raise).
Return(q) ==
    /\ pc[q] = "finish"
    /\ result' = [result EXCEPT ![q] =
                    [called     |-> TRUE,
                     overlapped |-> \E o \in Requests \ {q} : pc[o] # "idle",
                     out        |-> Finish(df_subset[q], args[q][1], args[q][2])]]
    /\ df_subset' = [df_subset EXCEPT ![q] = {}]
    /\ pc' = [pc EXCEPT ![q] = "idle"]
    /\ UNCHANGED <<stage, loadVars, aggVars, session, ret, args>>

\* Workbooks of the concurrent runs: small teams in the first two sheets.
ConcurrentBases ==
    {b \in [Competitions -> {0, 1, 2}] :
        b[competition_order[3]] = 0 /\ b[competition_order[4]] = 0}

InitConc ==
    /\ stage = "serve"
    /\ NoSheet
    /\ \E base \in ConcurrentBases :
          /\ df_split = ServedRecords(base, 0)
          /\ df_split # <<>>
          /\ per_competition = PerCompetition(df_split)
          /\ all_combined = AllCombined(df_split)
          /\ map_data = Concat(per_competition, all_combined)
    /\ session = InitialSession
    /\ ret = NoCall
    /\ IdleRequests

NextConc ==
    \/ \E q \in Requests, c \in CompetitionDropdown, m \in MetricDropdown :
          Call(q, c, m)
    \/ \E q \in Requests : Filter(q)
    \/ \E q \in Requests : Fill(q)
    \/ \E q \in Requests : Return(q)

SpecConc ==
    InitConc /\ [][NextConc]_vars

\* C8: no sequence or interleaving of update_map calls changes map_data (it
\* stays the table startup computed from df_split), and every call's result
\* is what the call gives when run alone on that table with its own two
\* selections.
C8_ReadOnlyTable ==
    /\ map_data = MapData(df_split)
    /\ \A q \in Requests :
          result[q].called =>
              result[q].out = update_map(args[q][1], args[q][2], MapData(df_split))

\* A call returned while another request, with other selections, was past
\* its fill step.
C8_Witness ==
    \E q \in Requests, o \in Requests :
        /\ q # o
        /\ result[q].called /\ result[q].overlapped
        /\ result[q].out.status = "ok"
        /\ pc[o] = "finish"
        /\ args[o] # args[q]

---------------------------------------------------------------------------
(* Startup from the normalized records on: aggregation, then the page *)

\* Most records of a normalized record set of the aggregation runs
MaxRecords ==
    2

AggRecords ==
    [SR_NO : {<<"1">>}, TEAM_NAME : {T1, T2}, TEAM_MEMBER : {Member},
     ORGANIZATION : {O1, O2}, COUNTRY : {CountryA, CountryB},
     Competition : Competitions]

RecordSets(Records, n) ==
    UNION {[1..k -> Records] : k \in 1..n}

\* Lines 49-55
AggregatePerCompetition ==
    /\ stage = "aggregate"
    /\ per_competition' = PerCompetition(df_split)
    /\ stage' = "aggregate_all"
    /\ UNCHANGED <<loadVars, df_split, all_combined, map_data, session, ret,
                   requestVars>>

\* Lines 57-65
AggregateAllCombined ==
    /\ stage = "aggregate_all"
    /\ all_combined' = AllCombined(df_split)
    /\ stage' = "concat"
    /\ UNCHANGED <<loadVars, df_split, per_competition, map_data, session, ret,
                   requestVars>>

\* Line 67; the layout and the server follow.
ConcatMapData ==
    /\ stage = "concat"
    /\ map_data' = Concat(per_competition, all_combined)
    /\ stage' = "serve"
    /\ UNCHANGED <<loadVars, df_split, per_competition, all_combined, session,
                   ret, requestVars>>

InitAgg ==
    /\ stage = "aggregate"
    /\ NoSheet
    /\ df_split \in RecordSets(AggRecords, MaxRecords)
    /\ per_competition = {}
    /\ all_combined = {}
    /\ map_data = {}
    /\ session = InitialSession
    /\ ret = NoCall
    /\ IdleRequests

NextAgg ==
    \/ AggregatePerCompetition
    \/ AggregateAllCombined
    \/ ConcatMapData
    \/ \E c \in CompetitionDropdown : SelectCompetition(c)
    \/ UpdateMap

SpecAgg ==
    InitAgg /\ [][NextAgg]_vars

\* The records of df_split (by position) that fall into an aggregated row's
\* bucket: its country, and its competition unless it is "All Competitions".
Bucket(row) ==
    {i \in DOMAIN df_split :
        /\ df_split[i].COUNTRY = row.COUNTRY
        /\ (row.Competition = AllCompetitions
            \/ df_split[i].Competition = row.Competition)}

PerCompetitionRows(country) ==
    {r \in map_data : r.COUNTRY = country /\ r.Competition # AllCompetitions}

\* C3: in every aggregated row Teams is the number of distinct team names of
\* the bucket's records, Participants the number of records, Organizations
\* the number of distinct organizations; an "All Competitions" row is taken
\* over all of the country's records, and every non-empty bucket has its row.
C3_DistinctCounts ==
    stage = "serve" =>
        /\ \A row \in map_data :
              /\ Bucket(row) # {}
              /\ row.Teams =
                    Cardinality({df_split[i].TEAM_NAME : i \in Bucket(row)})
              /\ row.Participants = Cardinality(Bucket(row))
              /\ row.Organizations =
                    Cardinality({df_split[i].ORGANIZATION : i \in Bucket(row)})
        /\ \A i \in DOMAIN df_split :
              \A comp \in {df_split[i].Competition, AllCompetitions} :
                 Cardinality({row \in map_data :
                                 /\ row.COUNTRY = df_split[i].COUNTRY
                                 /\ row.Competition = comp}) = 1

\* One team name in two competitions: one team in the "All Competitions"
\* row, while the per-competition rows of the country add up to two.
C3_Witness ==
    /\ stage = "serve"
    /\ \E row \in map_data :
          /\ row.Competition = AllCompetitions
          /\ row.Teams = 1
          /\ row.Participants = 2
          /\ SumOver(PerCompetitionRows(row.COUNTRY), "Teams") = 2

\* C4: the Participation of a country's "All Competitions" row is the number
\* of distinct competitions among the country's records, between 1 and 4;
\* per-competition rows hold no Participation, and update_map's filled copy
\* holds 0 for them.
C4_Participation ==
    stage = "serve" =>
        /\ \A row \in map_data :
              IF row.Competition = AllCompetitions
              THEN /\ row.Participation =
                         Cardinality({df_split[i].Competition : i \in Bucket(row)})
                   /\ row.Participation \in 1..4
              ELSE row.Participation = NaNCount
        /\ ret.called =>
              \A r \in ret.df_subset :
                 IF ret.selected_comp = AllCompetitions
                 THEN r \in map_data
                 ELSE /\ r.Participation = 0
                      /\ [r EXCEPT !.Participation = NaNCount] \in map_data

\* A country in two of the four competitions has Participation 2, and a
\* call for one of them has filled its copy.
C4_Witness ==
    /\ stage = "serve"
    /\ ret.called
    /\ ret.selected_comp # AllCompetitions
    /\ \E row \in map_data :
          /\ row.Competition = AllCompetitions
          /\ row.Participation = 2
          /\ \E r \in ret.df_subset : r.COUNTRY = row.COUNTRY

---------------------------------------------------------------------------
(* Startup from the loaded records on: the Country Normalizer *)

\* Most pieces a raw country field is typed from
MaxPieces ==
    4

USA == <<"U","S","A">>
U_S_ == <<"U",".","S",".">>
USLong ==
    <<"U","n","i","t","e","d"," ","S","t","a","t","e","s"," ","o","f"," ",
      "A","m","e","r","i","c","a"," ","(","U","S","A",")">>
usa == <<"u","s","a">>
AndWord == <<"a","n","d">>

USSpellings ==
    {USA, U_S_, USLong}

Symbols ==
    {<<",">>, <<"/">>, <<"&">>}

\* What a raw country cell is typed from: spellings, separators, blanks.
Pieces ==
    USSpellings \cup {usa, CountryA} \cup Symbols \cup {AndWord, <<" ">>}

RawRecord(country) ==
    [SR_NO        |-> <<"1">>,
     TEAM_NAME    |-> T1,
     TEAM_MEMBER  |-> Member,
     ORGANIZATION |-> O1,
     COUNTRY      |-> country,
     Competition  |-> competition_order[1]]

\* Lines 39-42
SplitExplode ==
    /\ stage = "normalize"
    /\ df_split' = SplitAndExplode(all_data)
    /\ stage' = "strip"
    /\ UNCHANGED <<loadVars, per_competition, all_combined, map_data, session,
                   ret, requestVars>>

\* Lines 43-44
StripReplace ==
    /\ stage = "strip"
    /\ df_split' = StripAndReplace(df_split)
    /\ stage' = "aggregate"
    /\ UNCHANGED <<loadVars, per_competition, all_combined, map_data, session,
                   ret, requestVars>>

\* One loaded record whose country cell is typed from pieces, or is missing.
InitNorm ==
    /\ stage = "normalize"
    /\ sheet_name = competition_order[1]
    /\ sheet = <<>>
    /\ loaded = <<>>
    /\ pieces \in RecordSets(Pieces, MaxPieces) \cup {<<NaN>>}
    /\ all_data = <<RawRecord(Flatten(pieces))>>
    /\ df_split = <<>>
    /\ per_competition = {}
    /\ all_combined = {}
    /\ map_data = {}
    /\ session = InitialSession
    /\ ret = NoCall
    /\ IdleRequests

NextNorm ==
    \/ SplitExplode
    \/ StripReplace
    \/ AggregatePerCompetition
    \/ AggregateAllCombined
    \/ ConcatMapData

SpecNorm ==
    InitNorm /\ [][NextNorm]_vars

Raw ==
    all_data[1].COUNTRY

Normalized ==
    stage \in {"aggregate", "aggregate_all", "concat", "serve"}

\* Piece j stands alone between separators: going left and going right over
\* blanks one reaches a comma, "/", "&" or the end of the cell.
RECURSIVE LeftOpen(_)
LeftOpen(j) ==
    \/ j = 1
    \/ pieces[j - 1] \in Symbols
    \/ pieces[j - 1] = <<" ">> /\ LeftOpen(j - 1)

RECURSIVE RightOpen(_)
RightOpen(j) ==
    \/ j = Len(pieces)
    \/ pieces[j + 1] \in Symbols
    \/ pieces[j + 1] = <<" ">> /\ RightOpen(j + 1)

Isolated(j) ==
    LeftOpen(j) /\ RightOpen(j)

\* The token a piece lands in when only commas, "/" and "&" precede it.
TokenIndex(j) ==
    1 + Cardinality({i \in 1..(j - 1) : pieces[i] \in Symbols})

AndBefore(j) ==
    \E i \in 1..(j - 1) : pieces[i] = AndWord

\* What the spelling of piece j must become: the three United States
\* spellings become "United States", "usa" stays as typed.
Expected(j) ==
    IF pieces[j] \in USSpellings THEN UnitedStates ELSE pieces[j]

\* C5: after split, trim and exact-match alias substitution the spellings
\* "U.S.", "USA" and "United States of America (USA)" are all the country
\* "United States", also as one token of a compound cell with blanks left by
\* the split, and land in the one bucket of that name; "usa" is no key of the
\* table, passes unchanged and has its own bucket.
C5_AliasBuckets ==
    (Normalized /\ ~IsNa(Raw)) =>
        \A j \in DOMAIN pieces :
            (pieces[j] \in USSpellings \cup {usa} /\ Isolated(j)) =>
                /\ IF AndBefore(j)
                   THEN \E k \in DOMAIN df_split :
                            df_split[k].COUNTRY = Expected(j)
                   ELSE /\ TokenIndex(j) \in DOMAIN df_split
                        /\ df_split[TokenIndex(j)].COUNTRY = Expected(j)
                /\ stage = "serve" =>
                      \E row \in map_data :
                          /\ row.Competition = AllCompetitions
                          /\ row.COUNTRY = Expected(j)
                          /\ row.Participants >=
                                Cardinality({i \in DOMAIN pieces :
                                    /\ Isolated(i)
                                    /\ pieces[i] \in USSpellings \cup {usa}
                                    /\ Expected(i) = Expected(j)})

\* "usa, USA": the second token keeps a blank from the split and is still
\* counted under United States, next to the bucket of "usa".
C5_Witness ==
    /\ stage = "serve"
    /\ pieces = <<usa, <<",">>, <<" ">>, USA>>
    /\ \E row \in map_data :
          row.Competition = AllCompetitions /\ row.COUNTRY = UnitedStates
    /\ \E row \in map_data :
          row.Competition = AllCompetitions /\ row.COUNTRY = usa


\* Places of s where the word "and" stands between whitespace.
AndPlaces(s) ==
    {i \in 2..(Len(s) - 3) :
        /\ s[i] = "a" /\ s[i + 1] = "n" /\ s[i + 2] = "d"
        /\ s[i - 1] \in Whitespace
        /\ s[i + 3] \in Whitespace}

\* The delimiters of a raw cell as they are read off the text: every "&",
\* "/" and comma, and every "and" between whitespace.
Delimiters(s) ==
    Cardinality({i \in DOMAIN s : s[i] \in {"&", "/", ","}})
    + Cardinality(AndPlaces(s))

\* The pattern's matches in a left-to-right scan without overlap, from i on.
RECURSIVE ScanMatches(_, _)
ScanMatches(s, i) ==
    LET m == NextMatch(s, i)
    IN  IF m = 0 THEN 0 ELSE 1 + ScanMatches(s, MatchDelimiter(s, m))

\* The delimiters the substitution finds: the scan's matches and the commas.
Matches(s) ==
    ScanMatches(s, 1) + Cardinality({i \in DOMAIN s : s[i] = ","})

\* The records of df_split are the input record but for the country.
OnlyCountryDiffers ==
    \A i \in DOMAIN df_split : WithCountry(df_split[i], Raw) = all_data[1]

\* C9 as stated: after split-and-explode a cell without a delimiter gives
\* one record identical to the input, and a cell with k delimiters ("&",
\* "/", comma, "and" between whitespace) gives k+1 records that differ only
\* in the country.
C9_Original ==
    stage = "strip" =>
        /\ (IsNa(Raw) \/ Delimiters(Raw) = 0) => df_split = all_data
        /\ ~IsNa(Raw) => /\ Len(df_split) = Delimiters(Raw) + 1
                         /\ OnlyCountryDiffers

\* C9 (amended): after split-and-explode a cell without a delimiter gives
\* one record identical to the input, and a cell in which the substitution
\* finds k delimiters (the pattern's matches, left to right without overlap,
\* and the commas) gives k+1 records that differ only in the country.
C9_SplitExplode ==
    stage = "strip" =>
        /\ (IsNa(Raw) \/ Delimiters(Raw) = 0) => df_split = all_data
        /\ ~IsNa(Raw) => /\ Len(df_split) = Matches(Raw) + 1
                         /\ OnlyCountryDiffers

\* A cell with two delimiters has given three records, the first two with
\* different countries.
C9_Witness ==
    /\ stage = "strip"
    /\ ~IsNa(Raw)
    /\ Delimiters(Raw) = 2
    /\ Matches(Raw) = 2
    /\ Len(df_split) = 3
    /\ df_split[1].COUNTRY # <<>>
    /\ df_split[2].COUNTRY # <<>>
    /\ df_split[1].COUNTRY # df_split[2].COUNTRY

---------------------------------------------------------------------------
(* Startup from a sheet on: the Record Loader *)

\* Most rows of a sheet
MaxSheetRows ==
    2

SheetRows ==
    [SR_NO : {NaN, <<"1">>}, TEAM_NAME : {NaN, T1, T2},
     TEAM_MEMBER : {NaN, Member}, ORGANIZATION : {NaN, O1, O2},
     COUNTRY : {NaN, CountryA, CountryB}]

\* Lines 13-19 for one sheet, and its part of line 21.
LoadCompetition ==
    /\ stage = "load"
    /\ loaded' = load_competition(sheet, sheet_name)
    /\ all_data' = all_data \o IgnoreIndex(loaded')
    /\ stage' = "normalize"
    /\ UNCHANGED <<sheet_name, sheet, pieces, aggVars, session, ret,
                   requestVars>>

InitLoad ==
    /\ stage = "load"
    /\ sheet_name \in Competitions
    /\ sheet \in RecordSets(SheetRows, MaxSheetRows)
    /\ loaded = <<>>
    /\ pieces = <<>>
    /\ all_data = <<>>
    /\ df_split = <<>>
    /\ per_competition = {}
    /\ all_combined = {}
    /\ map_data = {}
    /\ session = InitialSession
    /\ ret = NoCall
    /\ IdleRequests

NextLoad ==
    LoadCompetition

SpecLoad ==
    InitLoad /\ [][NextLoad]_vars

\* The row that opens the team block sheet row i lies in: the first of the
\* rows at or above i from which on only row i's team is named (0 when no
\* row at or above i names a team).
BlockStart(i) ==
    LET named == {j \in 1..i : ~IsNa(sheet[j].TEAM_NAME)}
        team  == sheet[MaxOf(named)].TEAM_NAME
        own   == {j \in named :
                    \A k \in named : k >= j => sheet[k].TEAM_NAME = team}
    IN  IF named = {} THEN 0
        ELSE CHOOSE j \in own : \A k \in own : j <= k

\* The value of a column a row may carry from its own block: the last one
\* present between the block's first row and the row itself, else none.
OwnBlockValue(col, i) ==
    LET present == {j \in BlockStart(i)..i : ~IsNa(sheet[j][col])}
    IN  IF present = {} THEN NaN ELSE sheet[MaxOf(present)][col]

\* C2: after load_competition every surviving member row carries the
\* sequence number, team name, organization and country of its own team's
\* block only; nothing is carried over from a preceding team's block, also
\* when the block's first row names the team and leaves another of these
\* cells blank.  Stated for sheets whose first row names a team, so that
\* every row above a block belongs to a preceding team.
C2_OwnBlockOnly ==
    (stage = "normalize" /\ ~IsNa(sheet[1].TEAM_NAME)) =>
        \A k \in DOMAIN loaded :
            BlockStart(loaded[k].index) # 0 =>
                \A col \in {"SR_NO", "TEAM_NAME", "ORGANIZATION", "COUNTRY"} :
                    loaded[k][col] = OwnBlockValue(col, loaded[k].index)

====
